---------------------------- MODULE Spec2Model ----------------------------
(***************************************************************************)
(* Query understanding and retrieval pipeline of the SOX compliance RAG    *)
(* service: QueryClassifier (utils/query_classifier.py) and QueryService   *)
(* (services/query_service.py); and its document ingestion: the upload     *)
(* endpoint (main.py), DocumentProcessor (services/document_processor.py)  *)
(* and DocumentPreprocessor (utils/document_preprocessor.py).              *)
(*                                                                         *)
(* Text is held as strings; Len, SubSeq and \o act on them as Python's     *)
(* len, slicing and + do.  Character offsets reported to the caller are    *)
(* 0-based as in Python, positions inside the operators are 1-based.       *)
(*                                                                         *)
(* Confidence values are decimal fractions held exactly in thousandths:    *)
(* 700 stands for 0.7.  Every sum and product the code forms has at most   *)
(* three decimals, so nothing is rounded; Python's binary floats differ    *)
(* from these values by at most one unit in the last place.                *)
(***************************************************************************)
EXTENDS Integers, Sequences, FiniteSets, TLC

VARIABLES
    pc,               \* position of the request being served
    query,            \* the query string of the request
    doc,              \* output of the linguistic extractor (self.nlp)
    zero_shot_label,  \* top-ranked label of the zero-shot classifier
    query_analysis,   \* result of classify_query
    num_contexts,     \* limit handed to query_similar
    relevant_docs,    \* passages returned by query_similar
    response,         \* value returned by process_query
    calls,            \* external invocations made during the request
    services_built,   \* QueryService objects constructed so far
    whole_text,       \* _chunk_text: the text to split
    chunk_size,       \* _chunk_text: largest length of a chunk
    overlap,          \* _chunk_text: characters shared by neighbours
    start,            \* _chunk_text: 0-based offset of the next chunk
    chunks,           \* the chunks of the method that is running
    files,            \* upload_documents: the uploaded files
    file_no,          \* upload_documents: the file being processed
    store,            \* data objects held by the vector store
    total_chunks      \* upload_documents: chunks counted so far

\* the state of document ingestion, untouched by the query pipeline
docVars == <<whole_text, chunk_size, overlap, start, chunks, files, file_no, store,
             total_chunks>>

\* the state of the query pipeline, untouched by document ingestion
queryVars == <<query, doc, zero_shot_label, query_analysis, num_contexts,
               relevant_docs, response, calls, services_built>>

vars == <<pc, query, doc, zero_shot_label, query_analysis, num_contexts,
          relevant_docs, response, calls, services_built, whole_text, chunk_size,
          overlap, start, chunks, files, file_no, store, total_chunks>>

None == "<None>"

\* no document is being ingested
NoDocumentWork ==
    /\ whole_text = None
    /\ chunk_size = None
    /\ overlap = None
    /\ start = None
    /\ chunks = None
    /\ files = None
    /\ file_no = None
    /\ store = None
    /\ total_chunks = None

-----------------------------------------------------------------------------
(* Bounds of the model                                                     *)

MaxEnts == 3        \* entities the linguistic extractor reports
MaxMarks == 3       \* tokens with dep_ = 'mark'
MaxPlain == 16      \* other non-punctuation tokens
MaxPassages == 2    \* passages the retrieval oracle returns
MaxOver == 1        \* characters of passage content beyond the excerpt cut
MaxRequests == 2    \* requests the server receives

-----------------------------------------------------------------------------
(* Text helpers: str.lower, re.search and re.finditer for the literal      *)
(* patterns of _init_patterns                                              *)

Min(a, b) == IF a <= b THEN a ELSE b
Max(a, b) == IF a >= b THEN a ELSE b

Lowercase ==
    [A |-> "a", B |-> "b", C |-> "c", D |-> "d", E |-> "e", F |-> "f",
     G |-> "g", H |-> "h", I |-> "i", J |-> "j", K |-> "k", L |-> "l",
     M |-> "m", N |-> "n", O |-> "o", P |-> "p", Q |-> "q", R |-> "r",
     S |-> "s", T |-> "t", U |-> "u", V |-> "v", W |-> "w", X |-> "x",
     Y |-> "y", Z |-> "z"]

LowerChar(c) == IF c \in DOMAIN Lowercase THEN Lowercase[c] ELSE c

\* str.lower, character by character; the string is halved so that long
\* queries do not nest deeply
RECURSIVE Lower(_)
Lower(s) ==
    IF Len(s) <= 1 THEN LowerChar(s)
    ELSE LET half == Len(s) \div 2
         IN  Lower(SubSeq(s, 1, half)) \o Lower(SubSeq(s, half + 1, Len(s)))

\* block * k
RECURSIVE Repeat(_, _)
Repeat(block, k) == IF k = 0 THEN "" ELSE Repeat(block, k - 1) \o block

\* pattern occurs in text at 1-based position i
MatchAt(pattern, text, i) ==
    /\ i >= 1
    /\ i + Len(pattern) - 1 <= Len(text)
    /\ SubSeq(text, i, i + Len(pattern) - 1) = pattern

\* re.search(pattern, text) is not None
Search(pattern, text) ==
    \E i \in 1..Len(text) : MatchAt(pattern, text, i)

\* re.finditer(pattern, text): the non-overlapping matches, left to right,
\* each as Python's (group, start, end)
RECURSIVE FindIterFrom(_, _, _)
FindIterFrom(pattern, text, i) ==
    LET starts == {j \in i..(Len(text) - Len(pattern) + 1) :
                      MatchAt(pattern, text, j)}
        first == CHOOSE j \in starts : \A k \in starts : j <= k
    IN  IF starts = {} THEN <<>>
        ELSE <<[text |-> pattern, start |-> first - 1,
                end |-> first - 1 + Len(pattern)]>>
             \o FindIterFrom(pattern, text, first + Len(pattern))

\* the first match only, as re.search would report it
FindIterFirstOnly(pattern, text) ==
    LET starts == {j \in 1..(Len(text) - Len(pattern) + 1) :
                      MatchAt(pattern, text, j)}
        first == CHOOSE j \in starts : \A k \in starts : j <= k
    IN  IF starts = {} THEN <<>>
        ELSE <<[text |-> pattern, start |-> first - 1,
                end |-> first - 1 + Len(pattern)]>>

FindIter(pattern, text) == FindIterFrom(pattern, text, 1)

\* sum(1 for pattern in patterns if re.search(pattern, text))
RECURSIVE CountMatching(_, _)
CountMatching(patterns, text) ==
    IF patterns = <<>> THEN 0
    ELSE (IF Search(Head(patterns), text) THEN 1 ELSE 0)
         + CountMatching(Tail(patterns), text)

\* any(re.search(pattern, text) for pattern in patterns)
AnyMatching(patterns, text) ==
    \E k \in 1..Len(patterns) : Search(patterns[k], text)

-----------------------------------------------------------------------------
(* QueryClassifier                                                         *)

QueryType == {"factual", "analytical", "compliance", "procedural", "temporal"}
QueryComplexity == {"simple", "moderate", "complex", "expert"}

compliance_keywords ==
    <<"compliance", "regulation", "requirement", "audit", "control",
      "policy", "procedure", "sox", "sarbanes", "oxley", "internal control",
      "framework">>

temporal_indicators ==
    <<"when", "date", "period", "timeline", "history", "past", "future",
      "schedule", "deadline">>

complex_patterns ==
    <<"compare", "analyze", "evaluate", "assess", "implications", "impact",
      "relationship">>

expert_patterns ==
    <<"strategic", "optimization", "integration", "architecture",
      "framework", "methodology">>

\* every finditer match of every temporal indicator, in pattern order
RECURSIVE IndicatorMatches(_, _)
IndicatorMatches(patterns, text) ==
    IF patterns = <<>> THEN <<>>
    ELSE FindIter(Head(patterns), text)
         \o IndicatorMatches(Tail(patterns), text)

\* the queries of test_edge_cases: special characters, extreme length
SpecialCharsQuery == "What is the impact of @#$%^&* on controls?"
LongQuery == "What is the impact of " \o Repeat("control ", 100)

\* the queries of test_query_type_classification
AnalyticalTestQuery == "How do internal controls affect financial reporting?"
ProceduralTestQuery == "What is the process for documenting control changes?"

\* the queries of test_complexity_assessment
ComplexTestQuery ==
    "Compare the effectiveness of preventive and detective controls in our current framework."
ExpertTestQuery ==
    "Analyze the implications of implementing a new control framework on our existing compliance strategy and risk assessment methodology."

\* the queries of the model
Queries ==
    {"", "What is SOX?", "When was the last audit performed?", "when when",
     "UPDATE", "hello", "compare", "compare impact", "strategic",
     "framework", "tell me about the tax rules",
     SpecialCharsQuery, LongQuery, AnalyticalTestQuery, ProceduralTestQuery,
     ComplexTestQuery, ExpertTestQuery}

\* what the pattern loops of the classifier find in query.lower(), worked
\* out once for each query of the model
PatternMatches ==
    [q \in Queries |->
        [compliance |-> AnyMatching(compliance_keywords, Lower(q)),
         temporal |-> AnyMatching(temporal_indicators, Lower(q)),
         complex |-> CountMatching(complex_patterns, Lower(q)),
         expert |-> CountMatching(expert_patterns, Lower(q)),
         finditer |-> IndicatorMatches(temporal_indicators, Lower(q))]]

\* the two overrides in the other order: temporal before compliance
DetermineQueryTypeTemporalFirst(q, primary_type) ==
    IF PatternMatches[q].temporal THEN "temporal"
    ELSE IF PatternMatches[q].compliance THEN "compliance"
    ELSE primary_type

\* _determine_query_type: primary_type is result['labels'][0]
DetermineQueryType(q, primary_type) ==
    IF PatternMatches[q].compliance THEN "compliance"
    ELSE IF PatternMatches[q].temporal THEN "temporal"
    ELSE primary_type

\* the features _assess_complexity counts
NumEntities(d) == Len(d.ents)
NumClauses(d) == Cardinality({i \in 1..Len(d.tokens) : d.tokens[i].dep_ = "mark"})
WordCount(d) == Cardinality({i \in 1..Len(d.tokens) : ~d.tokens[i].is_punct})
ComplexIndicators(q) == PatternMatches[q].complex
ExpertIndicators(q) == PatternMatches[q].expert

\* the chain with word_count >= 15 in place of word_count > 15
ComplexityCascadeFrom15(num_entities, num_clauses, word_count, complex_indicators, expert_indicators) ==
    IF expert_indicators > 0 \/ (complex_indicators >= 2 /\ num_clauses >= 3)
    THEN "expert"
    ELSE IF complex_indicators > 0 \/ (num_entities >= 3 /\ num_clauses >= 2)
    THEN "complex"
    ELSE IF num_entities >= 2 \/ num_clauses >= 1 \/ word_count >= 15
    THEN "moderate"
    ELSE "simple"

\* the if / elif chain of _assess_complexity
ComplexityCascade(num_entities, num_clauses, word_count, complex_indicators, expert_indicators) ==
    IF expert_indicators > 0 \/ (complex_indicators >= 2 /\ num_clauses >= 3)
    THEN "expert"
    ELSE IF complex_indicators > 0 \/ (num_entities >= 3 /\ num_clauses >= 2)
    THEN "complex"
    ELSE IF num_entities >= 2 \/ num_clauses >= 1 \/ word_count > 15
    THEN "moderate"
    ELSE "simple"

AssessComplexity(q, d) ==
    ComplexityCascade(NumEntities(d), NumClauses(d), WordCount(d),
                      ComplexIndicators(q), ExpertIndicators(q))

\* _extract_entities
ExtractEntities(d) ==
    [i \in 1..Len(d.ents) |->
        [text |-> d.ents[i].text, type |-> d.ents[i].label_,
         start |-> d.ents[i].start_char, end |-> d.ents[i].end_char]]


\* _identify_temporal_context, one operator per statement group
EmptyTemporalContext ==
    [has_temporal_aspect |-> FALSE, temporal_type |-> None,
     temporal_references |-> <<>>]

\* body of the inner loop over re.finditer matches
AppendIndicatorMatch(ctx, match) ==
    [ctx EXCEPT !.has_temporal_aspect = TRUE,
                !.temporal_references =
                    Append(@, [text |-> match.text, start |-> match.start,
                               end |-> match.end])]

\* the entity loop appending without raising has_temporal_aspect
AppendTemporalEntityNoFlag(ctx, ent) ==
    [ctx EXCEPT !.temporal_references =
                    Append(@, [text |-> ent.text, type |-> ent.label_,
                               start |-> ent.start_char,
                               end |-> ent.end_char])]

\* body of the loop over temporal_ents
AppendTemporalEntity(ctx, ent) ==
    [ctx EXCEPT !.has_temporal_aspect = TRUE,
                !.temporal_references =
                    Append(@, [text |-> ent.text, type |-> ent.label_,
                               start |-> ent.start_char,
                               end |-> ent.end_char])]

\* temporal_ents = [ent for ent in doc.ents if ent.label_ in ['DATE', 'TIME']]
IsTemporalEnt(ent) == ent.label_ \in {"DATE", "TIME"}
TemporalEnts(d) == SelectSeq(d.ents, IsTemporalEnt)

\* the context after the first k appends of the two loops
RECURSIVE TemporalContextAfter(_, _, _)
TemporalContextAfter(q, d, k) ==
    LET matches == PatternMatches[q].finditer
        ents == TemporalEnts(d)
    IN  IF k = 0 THEN EmptyTemporalContext
        ELSE IF k <= Len(matches)
        THEN AppendIndicatorMatch(TemporalContextAfter(q, d, k - 1), matches[k])
        ELSE AppendTemporalEntity(TemporalContextAfter(q, d, k - 1),
                                  ents[k - Len(matches)])

NumTemporalAppends(q, d) ==
    Len(PatternMatches[q].finditer) + Len(TemporalEnts(d))

IdentifyTemporalContext(q, d) ==
    TemporalContextAfter(q, d, NumTemporalAppends(q, d))

\* the three rules with the entity rule applied first
GenerateAugmentationSuggestionsEntityFirst(query_type, complexity, entities) ==
    (IF entities = <<>>
     THEN <<"Add specific entity references for better context">> ELSE <<>>)
    \o (IF query_type = "compliance"
        THEN <<"Include relevant regulatory framework references">> ELSE <<>>)
    \o (IF complexity \in {"complex", "expert"}
        THEN <<"Break down into sub-queries for detailed analysis">> ELSE <<>>)

\* _generate_augmentation_suggestions
GenerateAugmentationSuggestions(query_type, complexity, entities) ==
    (IF query_type = "compliance"
     THEN <<"Include relevant regulatory framework references">> ELSE <<>>)
    \o (IF complexity \in {"complex", "expert"}
        THEN <<"Break down into sub-queries for detailed analysis">> ELSE <<>>)
    \o (IF entities = <<>>
        THEN <<"Add specific entity references for better context">> ELSE <<>>)

\* the adjustments with their signs exchanged
ComplexityFactorFlipped(complexity) ==
    CASE complexity = "simple" -> 0 - 100
      [] complexity = "moderate" -> 0 - 50
      [] complexity = "complex" -> 50
      [] complexity = "expert" -> 100

\* _calculate_confidence, in thousandths
ComplexityFactor(complexity) ==
    CASE complexity = "simple" -> 100
      [] complexity = "moderate" -> 50
      [] complexity = "complex" -> 0 - 50
      [] complexity = "expert" -> 0 - 100

\* the score without the cap on the entity bonus and without the clamp
CalculateConfidenceUnbounded(query_type, complexity, entities) ==
    700 + Len(entities) * 100 + ComplexityFactor(complexity)

CalculateConfidence(query_type, complexity, entities) ==
    LET base_confidence == 700
        entity_factor == Min(Len(entities) * 100, 200)
        complexity_factor == ComplexityFactor(complexity)
        confidence == base_confidence + entity_factor + complexity_factor
    IN  Max(0, Min(1000, confidence))

\* classify_query with the temporal context left out of the result
ClassifyQueryWithoutTemporalContext(q, d, primary_type) ==
    LET query_type == DetermineQueryType(q, primary_type)
        complexity == AssessComplexity(q, d)
        entities == ExtractEntities(d)
    IN  [query_type |-> query_type,
         complexity |-> complexity,
         entities |-> entities,
         augmentation_suggestions |->
             GenerateAugmentationSuggestions(query_type, complexity, entities),
         confidence_score |->
             CalculateConfidence(query_type, complexity, entities)]

\* classify_query
ClassifyQuery(q, d, primary_type) ==
    LET query_type == DetermineQueryType(q, primary_type)
        complexity == AssessComplexity(q, d)
        entities == ExtractEntities(d)
    IN  [query_type |-> query_type,
         complexity |-> complexity,
         entities |-> entities,
         temporal_context |-> IdentifyTemporalContext(q, d),
         augmentation_suggestions |->
             GenerateAugmentationSuggestions(query_type, complexity, entities),
         confidence_score |->
             CalculateConfidence(query_type, complexity, entities)]

-----------------------------------------------------------------------------
(* The linguistic extractor, self.nlp(query): any document whose entities  *)
(* are spans of the query and whose tokens are pieces of it                *)

EntityLabels == {"ORG", "DATE", "TIME"}

CharAt(q, i) == SubSeq(q, i, i)

\* end (1-based, inclusive) of the word that starts at position i
WordEnd(q, i) ==
    CHOOSE j \in i..Len(q) :
        /\ j = Len(q) \/ CharAt(q, j + 1) = " "
        /\ \A k \in i..j : CharAt(q, k) # " "

\* the first k whitespace-separated words of q from position i on, as
\* 0-based spans
RECURSIVE WordSpansFrom(_, _, _)
WordSpansFrom(q, i, k) ==
    IF i > Len(q) \/ k = 0 THEN <<>>
    ELSE IF CharAt(q, i) = " " THEN WordSpansFrom(q, i + 1, k)
    ELSE <<[start_char |-> i - 1, end_char |-> WordEnd(q, i)]>>
         \o WordSpansFrom(q, WordEnd(q, i) + 1, k - 1)

WordSpans(q) == WordSpansFrom(q, 1, MaxEnts)

\* entity lists: the first k words of the query, each with some label
EntityLists(q) ==
    LET spans == WordSpans(q)
    IN  UNION {
          { [i \in 1..k |->
                [text |-> SubSeq(q, spans[i].start_char + 1, spans[i].end_char),
                 label_ |-> labels[i],
                 start_char |-> spans[i].start_char,
                 end_char |-> spans[i].end_char]]
            : labels \in [1..k -> EntityLabels] }
          : k \in 0..Min(MaxEnts, Len(spans)) }

\* token lists: m clause markers, p other words, u punctuation marks
TokenList(m, p, u) ==
    [i \in 1..(m + p + u) |->
        IF i <= m THEN [dep_ |-> "mark", is_punct |-> FALSE]
        ELSE IF i <= m + p THEN [dep_ |-> "dep", is_punct |-> FALSE]
        ELSE [dep_ |-> "punct", is_punct |-> TRUE]]

TokenShapes(q) ==
    { t \in (0..MaxMarks) \X (0..MaxPlain) \X (0..1) : t[1] + t[2] + t[3] <= Len(q) }

\* an entity is made of tokens: no more entities than tokens
Parse(q) ==
    { [ents |-> pair[1], tokens |-> TokenList(pair[2][1], pair[2][2], pair[2][3])] :
        pair \in { x \in EntityLists(q) \X TokenShapes(q) :
                     Len(x[1]) <= x[2][1] + x[2][2] + x[2][3] } }

-----------------------------------------------------------------------------
(* QueryService                                                            *)

ExcerptLen == 200

\* ctx.get('chunk_type', 'text')
ChunkType(ctx) ==
    IF "chunk_type" \in DOMAIN ctx THEN ctx.chunk_type ELSE "text"

\* the lookup with the 'expert' entry lost: expert falls to the default
NumContextsExpertMissing(complexity) ==
    CASE complexity = "simple" -> 3
      [] complexity = "moderate" -> 5
      [] complexity = "complex" -> 7
      [] OTHER -> 5

\* the num_contexts lookup of process_query
NumContexts(complexity) ==
    CASE complexity = "simple" -> 3
      [] complexity = "moderate" -> 5
      [] complexity = "complex" -> 7
      [] complexity = "expert" -> 10
      [] OTHER -> 5

\* _format_prompt raises KeyError when a passage's chunk type has no section
ContextSections == {"text", "table", "annotation"}
\* _format_prompt with a section for every chunk type: it never raises
FormatPromptNeverRaises(contexts) == FALSE

FormatPromptRaises(contexts) ==
    \E i \in 1..Len(contexts) : ChunkType(contexts[i]) \notin ContextSections

\* product of two decimal fractions held in thousandths
Mul(a, b) == (a * b) \div 1000

\* the type weights with 1.0 as the default of the lookup
TypeWeightDefaultOne(chunk_type) ==
    CASE chunk_type = "text" -> 1000
      [] chunk_type = "table" -> 900
      [] chunk_type = "annotation" -> 800
      [] OTHER -> 1000

TypeWeight(chunk_type) ==
    CASE chunk_type = "text" -> 1000
      [] chunk_type = "table" -> 900
      [] chunk_type = "annotation" -> 800
      [] OTHER -> 700

\* the complexity weights all 1.0
ComplexityWeightFlat(complexity) == 1000

ComplexityWeight(complexity) ==
    CASE complexity = "simple" -> 1000
      [] complexity = "moderate" -> 900
      [] complexity = "complex" -> 800
      [] complexity = "expert" -> 700
      [] OTHER -> 700

\* _calculate_reference_confidence, in thousandths
CalculateReferenceConfidence(context, analysis) ==
    LET base_confidence == 700
        type_factor == TypeWeight(ChunkType(context))
        complexity_factor == ComplexityWeight(analysis.complexity)
        confidence == Mul(Mul(base_confidence, type_factor), complexity_factor)
    IN  Min(1000, Max(0, confidence))

\* the preview with the ellipsis only when the content was cut
ExcerptEllipsisWhenCut(content) ==
    IF Len(content) > ExcerptLen
    THEN SubSeq(content, 1, ExcerptLen) \o "..."
    ELSE content

\* ctx["content"][:200] + "..."
Excerpt(content) == SubSeq(content, 1, Min(ExcerptLen, Len(content))) \o "..."

\* the references listed from the last passage to the first
FormatReferencesReversed(contexts, analysis) ==
    [i \in 1..Len(contexts) |->
        [document |-> contexts[Len(contexts) + 1 - i].source,
         page |-> contexts[Len(contexts) + 1 - i].page,
         excerpt |-> Excerpt(contexts[Len(contexts) + 1 - i].content),
         relevance_type |-> ChunkType(contexts[Len(contexts) + 1 - i]),
         confidence |->
             CalculateReferenceConfidence(contexts[Len(contexts) + 1 - i], analysis)]]

\* _format_references
FormatReferences(contexts, analysis) ==
    [i \in 1..Len(contexts) |->
        [document |-> contexts[i].source,
         page |-> contexts[i].page,
         excerpt |-> Excerpt(contexts[i].content),
         relevance_type |-> ChunkType(contexts[i]),
         confidence |-> CalculateReferenceConfidence(contexts[i], analysis)]]

\* a quotient of two integers, kept unreduced; x thousandths is x / 1000
Thousandths(x) == [num |-> x, den |-> 1000]
RatLeq(a, b) == a.num * b.den <= b.num * a.den
RatEq(a, b) == a.num * b.den = b.num * a.den
\* Python's min(a, b): b only when b < a
RatMin(a, b) == IF RatLeq(a, b) THEN a ELSE b

RECURSIVE SumConfidence(_)
SumConfidence(sources) ==
    IF sources = <<>> THEN 0
    ELSE Head(sources).confidence + SumConfidence(Tail(sources))

\* sum(s['confidence'] for s in sources) / len(sources)
MeanConfidence(sources) ==
    [num |-> SumConfidence(sources), den |-> 1000 * Len(sources)]

\* the overall confidence as the larger of the two values
OverallConfidenceMax(analysis, sources) ==
    IF RatLeq(Thousandths(analysis.confidence_score), MeanConfidence(sources))
    THEN MeanConfidence(sources)
    ELSE Thousandths(analysis.confidence_score)

\* the overall confidence of process_query
OverallConfidence(analysis, sources) ==
    RatMin(Thousandths(analysis.confidence_score), MeanConfidence(sources))

NoInformationAnswer ==
    "I couldn't find any relevant information in the SOX compliance documents to answer your question."

\* the early return reporting the classifier's score instead of 0.0
NoInformationResponseKeepsScore(analysis) ==
    [answer |-> NoInformationAnswer,
     sources |-> <<>>,
     confidence |-> Thousandths(analysis.confidence_score),
     query_analysis |-> analysis]

\* the early return of process_query
NoInformationResponse(analysis) ==
    [answer |-> NoInformationAnswer,
     sources |-> <<>>,
     confidence |-> Thousandths(0),
     query_analysis |-> analysis]

\* the final return of process_query
QueryResponse(answer, contexts, analysis) ==
    LET sources == FormatReferences(contexts, analysis)
    IN  [answer |-> answer,
         sources |-> sources,
         confidence |-> OverallConfidence(analysis, sources),
         query_analysis |-> analysis]

-----------------------------------------------------------------------------
(* Inputs: queries, passages of the vector store, generated answers        *)

ServedQueries == {"", "What is SOX?", "hello", "compare", "framework"}

TenDigits == "1234567890"

\* a text of n characters whose i-th character is the last digit of i
Content(n) == Repeat(TenDigits, n \div 10) \o SubSeq(TenDigits, 1, n % 10)

ContentLengths ==
    {0, 5, ExcerptLen - 1, ExcerptLen} \cup (ExcerptLen + 1)..(ExcerptLen + MaxOver)

Absent == "<absent>"
ChunkTypes == {"text", "table", "annotation", "image", Absent}

\* a Document object of the vector store; chunk_type may be missing
Passage(n, chunk_type) ==
    IF chunk_type = Absent
    THEN [content |-> Content(n), source |-> "sox.pdf", page |-> n + 1]
    ELSE [content |-> Content(n), source |-> chunk_type \o ".pdf",
          page |-> n + 1, chunk_type |-> chunk_type]

AllPassages == {Passage(n, t) : n \in ContentLengths, t \in ChunkTypes}

StoredPassages ==
    {Passage(0, "text"), Passage(ExcerptLen, "table"),
     Passage(ExcerptLen + 1, "annotation"), Passage(5, Absent),
     Passage(ExcerptLen - 1, "image")}

\* what query_similar may return for a limit: at most limit stored passages
QuerySimilar(limit) ==
    UNION {[1..n -> StoredPassages] : n \in 0..Min(limit, MaxPassages)}

Answers == {"answer A", "answer B"}

NoCalls == [nlp |-> 0, zero_shot |-> 0, query_similar |-> 0, generate |-> 0]

\* a call that is made a second time when it is made
CalledWithRetry(c, service) == [c EXCEPT ![service] = @ + 2]

Called(c, service) == [c EXCEPT ![service] = @ + 1]

-----------------------------------------------------------------------------
(* process_query, one request at a time; a step ends where the code calls  *)
(* an external service                                                     *)

Init ==
    /\ pc = "idle"
    /\ query = None
    /\ doc = None
    /\ zero_shot_label = None
    /\ query_analysis = None
    /\ num_contexts = None
    /\ relevant_docs = None
    /\ response = None
    /\ calls = NoCalls
    /\ services_built = 0
    /\ NoDocumentWork

\* POST /query: the dependencies get_document_processor and
\* get_query_service build a DocumentProcessor and a QueryService, and
\* with it a QueryClassifier, for this request; then process_query(query)
Receive ==
    /\ pc = "idle"
    /\ services_built < MaxRequests
    /\ services_built' = services_built + 1
    /\ \E q \in ServedQueries : query' = q
    /\ pc' = "classify"
    /\ UNCHANGED <<doc, zero_shot_label, query_analysis, num_contexts,
                   relevant_docs, response, calls>>
    /\ UNCHANGED docVars

\* classify_query returns: self.nlp and self.zero_shot both answered
Classify ==
    /\ pc = "classify"
    /\ \E d \in Parse(query), label \in QueryType :
          query_analysis' = ClassifyQuery(query, d, label)
    /\ calls' = Called(Called(calls, "nlp"), "zero_shot")
    /\ pc' = "retrieve"
    /\ UNCHANGED <<query, doc, zero_shot_label, num_contexts, relevant_docs,
                   response,
                   services_built>>
    /\ UNCHANGED docVars

\* self.nlp(query) raises
NlpFails ==
    /\ pc = "classify"
    /\ calls' = Called(calls, "nlp")
    /\ pc' = "raised"
    /\ UNCHANGED <<query, doc, zero_shot_label, query_analysis, num_contexts,
                   relevant_docs, response,
                   services_built>>
    /\ UNCHANGED docVars

\* self.zero_shot(...) raises
ZeroShotFails ==
    /\ pc = "classify"
    /\ calls' = Called(Called(calls, "nlp"), "zero_shot")
    /\ pc' = "raised"
    /\ UNCHANGED <<query, doc, zero_shot_label, query_analysis, num_contexts,
                   relevant_docs, response,
                   services_built>>
    /\ UNCHANGED docVars

\* query_similar answers; an empty answer ends the request at once
Retrieve ==
    /\ pc = "retrieve"
    /\ num_contexts' = NumContexts(query_analysis.complexity)
    /\ \E docs \in QuerySimilar(num_contexts') :
          /\ relevant_docs' = docs
          /\ IF docs = <<>>
             THEN /\ response' = NoInformationResponse(query_analysis)
                  /\ pc' = "returned"
             ELSE /\ response' = response
                  /\ pc' = "generate"
    /\ calls' = Called(calls, "query_similar")
    /\ UNCHANGED <<query, doc, zero_shot_label, query_analysis,
                   services_built>>
    /\ UNCHANGED docVars

\* query_similar raises
RetrieveFails ==
    /\ pc = "retrieve"
    /\ num_contexts' = NumContexts(query_analysis.complexity)
    /\ calls' = Called(calls, "query_similar")
    /\ pc' = "raised"
    /\ UNCHANGED <<query, doc, zero_shot_label, query_analysis, relevant_docs,
                   response,
                   services_built>>
    /\ UNCHANGED docVars

\* _format_prompt raises KeyError before the generator is reached
PromptFails ==
    /\ pc = "generate"
    /\ FormatPromptRaises(relevant_docs)
    /\ pc' = "raised"
    /\ UNCHANGED <<query, doc, zero_shot_label, query_analysis, num_contexts,
                   relevant_docs, response, calls,
                   services_built>>
    /\ UNCHANGED docVars

\* generate_response answers; sources and confidence follow, then the return
Generate ==
    /\ pc = "generate"
    /\ ~FormatPromptRaises(relevant_docs)
    /\ \E answer \in Answers :
          response' = QueryResponse(answer, relevant_docs, query_analysis)
    /\ calls' = Called(calls, "generate")
    /\ pc' = "returned"
    /\ UNCHANGED <<query, doc, zero_shot_label, query_analysis, num_contexts,
                   relevant_docs,
                   services_built>>
    /\ UNCHANGED docVars

\* generate_response raises
GenerateFails ==
    /\ pc = "generate"
    /\ ~FormatPromptRaises(relevant_docs)
    /\ calls' = Called(calls, "generate")
    /\ pc' = "raised"
    /\ UNCHANGED <<query, doc, zero_shot_label, query_analysis, num_contexts,
                   relevant_docs, response,
                   services_built>>
    /\ UNCHANGED docVars

\* the request is over; nothing of it is kept
Finish ==
    /\ pc \in {"returned", "raised"}
    /\ pc' = "idle"
    /\ query' = None
    /\ query_analysis' = None
    /\ num_contexts' = None
    /\ relevant_docs' = None
    /\ response' = None
    /\ calls' = NoCalls
    /\ UNCHANGED <<doc, zero_shot_label, services_built>>
    /\ UNCHANGED docVars

Next ==
    \/ Receive
    \/ Classify
    \/ NlpFails
    \/ ZeroShotFails
    \/ Retrieve
    \/ RetrieveFails
    \/ PromptFails
    \/ Generate
    \/ GenerateFails
    \/ Finish

Spec == Init /\ [][Next]_vars

-----------------------------------------------------------------------------
(* Direct calls of single methods, as the unit tests make them: the        *)
(* arguments are drawn, the method is applied once                         *)

\* arguments of classify_query
InitClassify ==
    /\ pc = "call classify_query"
    /\ query \in Queries
    /\ doc \in Parse(query)
    /\ zero_shot_label \in QueryType
    /\ query_analysis = None
    /\ num_contexts = None
    /\ relevant_docs = None
    /\ response = None
    /\ calls = NoCalls
    /\ services_built = 1
    /\ NoDocumentWork

\* arguments of _format_references: passages and the analysis it reads
InitFormatReferences ==
    /\ pc = "call _format_references"
    /\ query = None
    /\ doc = None
    /\ zero_shot_label = None
    /\ query_analysis \in {[complexity |-> c] : c \in QueryComplexity \cup {"unknown"}}
    /\ num_contexts = None
    /\ relevant_docs \in UNION {[1..n -> AllPassages] : n \in 0..1}
    /\ response = None
    /\ calls = NoCalls
    /\ services_built = 1
    /\ NoDocumentWork

InitUnit == InitClassify \/ InitFormatReferences

CallClassifyQuery ==
    /\ pc = "call classify_query"
    /\ query_analysis' = ClassifyQuery(query, doc, zero_shot_label)
    /\ calls' = Called(Called(calls, "nlp"), "zero_shot")
    /\ pc' = "classify_query returned"
    /\ UNCHANGED <<query, doc, zero_shot_label, num_contexts, relevant_docs,
                   response,
                   services_built>>
    /\ UNCHANGED docVars

CallFormatReferences ==
    /\ pc = "call _format_references"
    /\ response' = FormatReferences(relevant_docs, query_analysis)
    /\ pc' = "_format_references returned"
    /\ UNCHANGED <<query, doc, zero_shot_label, query_analysis, num_contexts,
                   relevant_docs, calls,
                   services_built>>
    /\ UNCHANGED docVars

NextUnit == CallClassifyQuery \/ CallFormatReferences

UnitSpec == InitUnit /\ [][NextUnit]_vars

-----------------------------------------------------------------------------
(* DocumentPreprocessor._chunk_text (utils/document_preprocessor.py), one  *)
(* step for each pass of its while loop                                    *)

MaxChunks == 20     \* passes of the loop of _chunk_text that are followed

\* a slice bound as Python reads it: negative counts from the end, and the
\* result is clamped to 0..n
SliceBound(i, n) == IF i < 0 THEN Max(i + n, 0) ELSE Min(i, n)

\* s[a:b]
Slice(s, a, b) == SubSeq(s, SliceBound(a, Len(s)) + 1, SliceBound(b, Len(s)))

\* s.rfind(' '): 0-based offset of the last space, -1 when there is none
RFindSpace(s) ==
    LET spaces == {i \in 1..Len(s) : CharAt(s, i) = " "}
    IN  IF spaces = {} THEN 0 - 1
        ELSE (CHOOSE i \in spaces : \A j \in spaces : j <= i) - 1

\* s.strip(), the space being the only whitespace of the texts here
Strip(s) ==
    LET solid == {i \in 1..Len(s) : CharAt(s, i) # " "}
    IN  IF solid = {} THEN ""
        ELSE SubSeq(s, CHOOSE i \in solid : \A j \in solid : i <= j,
                       CHOOSE i \in solid : \A j \in solid : j <= i)

\* one pass of the loop: the chunk appended and the next value of start
ChunkPass(txt, size, over, from) ==
    LET first_end == from + size
        first_chunk == Slice(txt, from, first_end)
        last_space == IF first_end < Len(txt) THEN RFindSpace(first_chunk)
                      ELSE 0 - 1
        end == IF last_space # 0 - 1 THEN from + last_space ELSE first_end
        chunk == IF last_space # 0 - 1 THEN Slice(txt, from, end)
                 ELSE first_chunk
    IN  [chunk |-> Strip(chunk), start |-> end - over]

\* the text of test_chunk_text and shorter texts
TestText == Repeat("This is a test document. ", 50)

Texts ==
    {TestText, "", "abcdefgh", "aaa bbb ccc", "ab  cd ef", " ab cd",
     "abcd efgh ijkl mnop", "a bcdefgh"}

\* chunk_size and overlap: the test's, the defaults scaled down, no overlap
ChunkSettings ==
    {<<100, 20>>, <<1000, 200>>, <<5, 1>>, <<5, 0>>, <<4, 2>>, <<6, 2>>, <<8, 3>>}

InitChunkText ==
    /\ pc = "_chunk_text"
    /\ whole_text \in Texts
    /\ \E setting \in ChunkSettings :
          /\ chunk_size = setting[1]
          /\ overlap = setting[2]
    /\ start = 0
    /\ chunks = <<>>
    /\ files = None
    /\ file_no = None
    /\ store = None
    /\ total_chunks = None
    /\ query = None
    /\ doc = None
    /\ zero_shot_label = None
    /\ query_analysis = None
    /\ num_contexts = None
    /\ relevant_docs = None
    /\ response = None
    /\ calls = NoCalls
    /\ services_built = 0

\* while start < text_length: one pass
ChunkLoop ==
    /\ pc = "_chunk_text"
    /\ start < Len(whole_text)
    /\ Len(chunks) < MaxChunks
    /\ LET pass == ChunkPass(whole_text, chunk_size, overlap, start)
       IN  /\ chunks' = Append(chunks, pass.chunk)
           /\ start' = pass.start
    /\ UNCHANGED <<pc, whole_text, chunk_size, overlap, files, file_no, store,
                   total_chunks>>
    /\ UNCHANGED queryVars

\* the loop ends: return chunks
ChunkReturn ==
    /\ pc = "_chunk_text"
    /\ ~(start < Len(whole_text))
    /\ pc' = "_chunk_text returned"
    /\ UNCHANGED docVars
    /\ UNCHANGED queryVars

NextChunk == ChunkLoop \/ ChunkReturn

ChunkSpec == InitChunkText /\ [][NextChunk]_vars

-----------------------------------------------------------------------------
(* POST /documents/upload: upload_documents (main.py),                     *)
(* DocumentProcessor.process_uploaded_file and embed_and_store             *)
(* (services/document_processor.py), DocumentPreprocessor.process_document *)

MaxFiles == 2       \* files of one upload
MaxPieces == 2      \* pieces of content a format processor finds in a file

\* offset of the last '.' of a file name, 0 when it has none
LastDot(name) ==
    LET dots == {i \in 1..Len(name) : CharAt(name, i) = "."}
    IN  IF dots = {} THEN 0 ELSE CHOOSE i \in dots : \A j \in dots : j <= i

\* filename.split('.')[-1].lower()
FileExt(name) == Lower(SubSeq(name, LastDot(name) + 1, Len(name)))

\* the keys of self.supported_formats
SupportedFormats == {"pdf", "docx", "png", "jpg", "jpeg"}

Filenames == {"report.pdf", "notes.DOCX", "scan.v2.jpeg", "notes.txt", "README"}

\* the chunk types a format processor produces
PieceTypes(file_ext) ==
    CASE file_ext = "pdf" -> {"text", "table", "annotation"}
      [] file_ext = "docx" -> {"text", "table"}
      [] OTHER -> {"text"}

\* an uploaded file: its name and, standing for its bytes, the pieces of
\* content a format processor finds in it
UploadedFile ==
    UNION {{[filename |-> name, pieces |-> pieces] :
               pieces \in UNION {[1..n -> PieceTypes(FileExt(name))] :
                                    n \in 0..MaxPieces}}
           : name \in Filenames}

\* what _process_pdf, _process_docx and _process_image return: one dict
\* with the keys content, type, page and metadata for each piece
FormatProcessor(pieces) ==
    [i \in 1..Len(pieces) |->
        [content |-> "piece",
         type |-> pieces[i],
         page |-> i,
         metadata |-> [source_type |-> pieces[i]]]]

\* the keys embed_and_store reads of a chunk
StoredKeys == {"content", "metadata", "chunk_type", "source", "page"}

\* the chunks embed_and_store handles before one lacks a key it reads
RECURSIVE StorablePrefix(_)
StorablePrefix(cs) ==
    IF cs = <<>> THEN <<>>
    ELSE IF StoredKeys \subseteq DOMAIN Head(cs)
         THEN <<Head(cs)>> \o StorablePrefix(Tail(cs))
         ELSE <<>>

\* the data object add_data_object receives for a chunk
DataObject(chunk) ==
    [content |-> chunk.content,
     source |-> chunk.source,
     page |-> chunk.page,
     chunk_type |-> chunk.chunk_type,
     metadata |-> chunk.metadata]

DataObjects(cs) == [i \in 1..Len(cs) |-> DataObject(cs[i])]

InitUpload ==
    /\ pc = "upload_documents"
    /\ files \in UNION {[1..n -> UploadedFile] : n \in 1..MaxFiles}
    /\ file_no = 1
    /\ total_chunks = 0
    /\ store = <<>>
    /\ chunks = None
    /\ whole_text = None
    /\ chunk_size = None
    /\ overlap = None
    /\ start = None
    /\ query = None
    /\ doc = None
    /\ zero_shot_label = None
    /\ query_analysis = None
    /\ num_contexts = None
    /\ relevant_docs = None
    /\ response = None
    /\ calls = NoCalls
    /\ services_built = 0

\* process_uploaded_file: process_document returns the chunks of the file
ProcessDocument ==
    /\ pc = "upload_documents"
    /\ file_no <= Len(files)
    /\ FileExt(files[file_no].filename) \in SupportedFormats
    /\ chunks' = FormatProcessor(files[file_no].pieces)
    /\ pc' = "embed_and_store"
    /\ UNCHANGED <<whole_text, chunk_size, overlap, start, files, file_no,
                   store, total_chunks>>
    /\ UNCHANGED queryVars

\* process_document raises ValueError; the endpoint answers with status 500
UnsupportedFormat ==
    /\ pc = "upload_documents"
    /\ file_no <= Len(files)
    /\ FileExt(files[file_no].filename) \notin SupportedFormats
    /\ pc' = "raised"
    /\ UNCHANGED docVars
    /\ UNCHANGED queryVars

\* embed_and_store stores every chunk; process_uploaded_file returns
\* len(chunks) and the endpoint adds it to total_chunks
EmbedAndStore ==
    /\ pc = "embed_and_store"
    /\ StorablePrefix(chunks) = chunks
    /\ store' = store \o DataObjects(chunks)
    /\ total_chunks' = total_chunks + Len(chunks)
    /\ file_no' = file_no + 1
    /\ pc' = "upload_documents"
    /\ UNCHANGED <<whole_text, chunk_size, overlap, start, chunks, files>>
    /\ UNCHANGED queryVars

\* embed_and_store raises KeyError at the first chunk that lacks a key it
\* reads; the batch sends what was added before; status 500
EmbedAndStoreFails ==
    /\ pc = "embed_and_store"
    /\ StorablePrefix(chunks) # chunks
    /\ store' = store \o DataObjects(StorablePrefix(chunks))
    /\ pc' = "raised"
    /\ UNCHANGED <<whole_text, chunk_size, overlap, start, chunks, files,
                   file_no, total_chunks>>
    /\ UNCHANGED queryVars

\* every file is done: UploadResponse(processed_chunks = total_chunks)
UploadReturn ==
    /\ pc = "upload_documents"
    /\ file_no > Len(files)
    /\ pc' = "uploaded"
    /\ UNCHANGED docVars
    /\ UNCHANGED queryVars

NextUpload ==
    \/ ProcessDocument
    \/ UnsupportedFormat
    \/ EmbedAndStore
    \/ EmbedAndStoreFails
    \/ UploadReturn

UploadSpec == InitUpload /\ [][NextUpload]_vars

-----------------------------------------------------------------------------
(* Properties                                                              *)

Analysed == pc \in {"retrieve", "generate", "returned"}
Retrieved == pc \in {"generate", "returned"}
Classified == pc = "classify_query returned"
Formatted == pc = "_format_references returned"

\* C1: the limit process_query hands to query_similar is 3 for a simple,
\* 5 for a moderate, 7 for a complex and 10 for an expert query, and the
\* lookup gives 5 for every value outside these four.
C1_RetrievalDepth ==
    /\ Retrieved =>
          /\ query_analysis.complexity = "simple" => num_contexts = 3
          /\ query_analysis.complexity = "moderate" => num_contexts = 5
          /\ query_analysis.complexity = "complex" => num_contexts = 7
          /\ query_analysis.complexity = "expert" => num_contexts = 10
          /\ num_contexts \in {3, 5, 7, 10}
          /\ Len(relevant_docs) <= num_contexts
    /\ \A c \in {"unknown", "SIMPLE", "", None} : NumContexts(c) = 5

C1_Witness ==
    /\ Retrieved
    /\ query_analysis.complexity = "expert"
    /\ num_contexts = 10
    /\ Len(relevant_docs) > 0

\* C2: when query_similar returns no passage, process_query returns the
\* fixed "couldn't find any relevant information" answer, no sources,
\* confidence 0.0 and the analysis classify_query produced, and the
\* generator has not been invoked during the request.
C2_EmptyRetrieval ==
    /\ (pc = "returned" /\ relevant_docs = <<>>) =>
          /\ response.answer = NoInformationAnswer
          /\ response.sources = <<>>
          /\ response.confidence.num = 0
          /\ response.confidence.den > 0
          /\ response.query_analysis = query_analysis
          /\ calls.generate = 0
    /\ pc = "generate" => relevant_docs # <<>>

C2_Witness ==
    /\ pc = "returned"
    /\ relevant_docs = <<>>
    /\ query = "What is SOX?"
    /\ query_analysis.complexity = "complex"
    /\ calls = [nlp |-> 1, zero_shot |-> 1, query_similar |-> 1, generate |-> 0]

\* C3: every confidence the pipeline outputs lies in [0, 1]: the
\* confidence_score of the analysis, the confidence of each source and the
\* overall confidence of the response, with or without passages; so does
\* the score of every chunk type under every complexity.
InUnit(x) == 0 <= x /\ x <= 1000

C3_ConfidenceInRange ==
    /\ Analysed => InUnit(query_analysis.confidence_score)
    /\ pc = "returned" =>
          /\ \A i \in 1..Len(response.sources) :
                InUnit(response.sources[i].confidence)
          /\ response.confidence.den > 0
          /\ 0 <= response.confidence.num
          /\ response.confidence.num <= response.confidence.den
    /\ \A p \in AllPassages, c \in QueryComplexity \cup {"unknown"} :
          InUnit(CalculateReferenceConfidence(p, [complexity |-> c]))

C3_Witness ==
    /\ pc = "returned"
    /\ Len(response.sources) >= 2
    /\ query_analysis.confidence_score = 950
    /\ response.confidence.num > 0

\* C4: has_temporal_aspect is true exactly when temporal_references is not
\* empty, in the context _identify_temporal_context returns and after each
\* reference it appends, from an indicator match or from a DATE/TIME entity.
ContextConsistent(ctx) ==
    ctx.has_temporal_aspect = (Len(ctx.temporal_references) > 0)

C4_TemporalAspectIffReferences ==
    Classified =>
        /\ ContextConsistent(query_analysis.temporal_context)
        /\ \A k \in 0..NumTemporalAppends(query, doc) :
              /\ ContextConsistent(TemporalContextAfter(query, doc, k))
              /\ Len(TemporalContextAfter(query, doc, k).temporal_references) = k

C4_Witness ==
    /\ Classified
    /\ query = "tell me about the tax rules"
    /\ Len(query_analysis.temporal_context.temporal_references) = 2
    /\ query_analysis.temporal_context.temporal_references[1].type = "DATE"
    /\ query_analysis.temporal_context.temporal_references[2].type = "TIME"
    /\ query_analysis.temporal_context.has_temporal_aspect

C8_EmptyQueryLowConfidence ==
    (Classified /\ query = "") => query_analysis.confidence_score < 500

\* C9: the excerpt of a source is the first 200 characters of the passage
\* content followed by "...": its length is min(len(content), 200) + 3, at
\* most 203, also when the content has 200 characters or fewer.
C9_Excerpt ==
    Formatted =>
        \A i \in 1..Len(relevant_docs) :
            LET content == relevant_docs[i].content
                excerpt == response[i].excerpt
                kept == IF Len(content) <= 200 THEN Len(content) ELSE 200
            IN  /\ Len(excerpt) = kept + 3
                /\ Len(excerpt) <= 203
                /\ SubSeq(excerpt, 1, kept) = SubSeq(content, 1, kept)
                /\ SubSeq(excerpt, kept + 1, kept + 3) = "..."

C9_Witness ==
    /\ Formatted
    /\ Len(relevant_docs) = 1
    /\ Len(relevant_docs[1].content) = 5
    /\ response[1].excerpt = "12345..."

\* C10: the confidence of a source is 0.7 * type_weight * complexity_weight
\* clamped to [0, 1], with type_weight 1.0 (text), 0.9 (table), 0.8
\* (annotation), 0.7 (other) and complexity_weight 1.0 (simple), 0.9
\* (moderate), 0.8 (complex), 0.7 (expert or other); a table passage under a
\* simple query scores 0.63.
C10_ReferenceConfidence ==
    Formatted =>
        \A i \in 1..Len(relevant_docs) :
            LET ctx == relevant_docs[i]
                t == IF "chunk_type" \in DOMAIN ctx THEN ctx.chunk_type ELSE "text"
                c == query_analysis.complexity
                tenthsT == IF t = "text" THEN 10 ELSE IF t = "table" THEN 9
                           ELSE IF t = "annotation" THEN 8 ELSE 7
                tenthsC == IF c = "simple" THEN 10 ELSE IF c = "moderate" THEN 9
                           ELSE IF c = "complex" THEN 8 ELSE 7
            IN  /\ response[i].confidence = Max(0, Min(1000, 7 * tenthsT * tenthsC))
                /\ (t = "table" /\ c = "simple") => response[i].confidence = 630

C10_Witness ==
    /\ Formatted
    /\ Len(relevant_docs) = 1
    /\ "chunk_type" \in DOMAIN relevant_docs[1]
    /\ relevant_docs[1].chunk_type = "table"
    /\ query_analysis.complexity = "simple"
    /\ response[1].confidence = 630


\* C11: when query_similar returned at least one passage, the overall
\* confidence of the response equals the smaller of the analysis'
\* confidence_score and the arithmetic mean of the confidences of all
\* returned sources: it exceeds neither and equals one of them.
C11_OverallConfidence ==
    (pc = "returned" /\ relevant_docs # <<>>) =>
        LET n == Len(response.sources)
            total == SumConfidence(response.sources)
            score == query_analysis.confidence_score
            c == response.confidence
        IN  /\ n = Len(relevant_docs)
            /\ c.den > 0
            /\ c.num * 1000 <= score * c.den
            /\ c.num * n * 1000 <= total * c.den
            /\ \/ c.num * 1000 = score * c.den
               \/ c.num * n * 1000 = total * c.den

C11_Witness ==
    /\ pc = "returned"
    /\ Len(response.sources) = 2
    /\ response.sources[1].confidence # response.sources[2].confidence
    /\ response.confidence.num * 2 * 1000
          = (response.sources[1].confidence + response.sources[2].confidence)
                * response.confidence.den
    /\ response.confidence.num * 1000
          < query_analysis.confidence_score * response.confidence.den


\* C12: with the linguistic extractor and the zero-shot classifier
\* answering, classify_query returns for every query, the empty one, the
\* one with special characters and the 822-character one included, an
\* analysis with exactly the six fields query_type, complexity, entities,
\* temporal_context, augmentation_suggestions and confidence_score, where
\* query_type and complexity are members of their enums and
\* confidence_score lies in [0, 1].
AnalysisFields ==
    {"query_type", "complexity", "entities", "temporal_context",
     "augmentation_suggestions", "confidence_score"}

C12_ClassifyNeverFails ==
    /\ pc = "call classify_query" => zero_shot_label \in QueryType
    /\ Classified =>
          /\ DOMAIN query_analysis = AnalysisFields
          /\ query_analysis.query_type \in QueryType
          /\ query_analysis.complexity \in QueryComplexity
          /\ Len(query_analysis.entities) = Len(doc.ents)
          /\ DOMAIN query_analysis.temporal_context
                = {"has_temporal_aspect", "temporal_type", "temporal_references"}
          /\ Len(query_analysis.augmentation_suggestions) <= 3
          /\ 0 <= query_analysis.confidence_score
          /\ query_analysis.confidence_score <= 1000
          /\ query = SpecialCharsQuery =>
                /\ query_analysis.query_type = "compliance"
                /\ query_analysis.complexity = "complex"

C12_Witness ==
    /\ Classified
    /\ query = LongQuery
    /\ Len(query) = 822
    /\ Len(doc.ents) = 3
    /\ query_analysis.query_type = "compliance"
    /\ query_analysis.complexity = "complex"
    /\ query_analysis.confidence_score = 850


\* C13: within one process_query request the linguistic extractor, the
\* zero-shot classifier, query_similar and the generator are each invoked
\* at most once, classification before retrieval before generation; when
\* one of them fails the request ends raised, nothing after the failing
\* call has been invoked, and no response, complete or partial, exists.
C13_SingleAttemptNoPartialResponse ==
    /\ \A s \in DOMAIN calls : calls[s] <= 1
    /\ calls.zero_shot = 1 => calls.nlp = 1
    /\ calls.query_similar = 1 => calls.zero_shot = 1
    /\ calls.generate = 1 => calls.query_similar = 1
    /\ pc = "retrieve" => (calls.zero_shot = 1 /\ calls.query_similar = 0)
    /\ pc = "generate" => (calls.query_similar = 1 /\ calls.generate = 0)
    /\ pc = "raised" => (response = None /\ calls.nlp = 1)
    /\ pc = "returned" =>
          /\ DOMAIN response = {"answer", "sources", "confidence", "query_analysis"}
          /\ calls.query_similar = 1
          /\ calls.generate = (IF relevant_docs = <<>> THEN 0 ELSE 1)
    /\ pc # "returned" => response = None

C13_Witness ==
    /\ pc = "raised"
    /\ calls = [nlp |-> 1, zero_shot |-> 1, query_similar |-> 1, generate |-> 1]
    /\ Len(relevant_docs) = 2
    /\ query_analysis.complexity = "expert"
    /\ response = None


\* C15: the linguistic model, the zero-shot classifier and the pattern
\* tables are initialized once, at startup, and never again by request
\* handling: however many requests have been received, at most one
\* QueryService (and with it one QueryClassifier) has been constructed.
C15_InitializedOnce ==
    services_built <= 1


\* C16: _determine_query_type returns the type the question asks for even
\* when the query holds compliance vocabulary: the query with 'when' and
\* 'audit' is temporal, and the queries with 'control' are analytical,
\* respectively procedural, when that is the top zero-shot label.
C16_TypeAskedFor ==
    Classified =>
        /\ query = "When was the last audit performed?"
              => query_analysis.query_type = "temporal"
        /\ (query = AnalyticalTestQuery /\ zero_shot_label = "analytical")
              => query_analysis.query_type = "analytical"
        /\ (query = ProceduralTestQuery /\ zero_shot_label = "procedural")
              => query_analysis.query_type = "procedural"

\* C17: _assess_complexity returns complex for the query that matches
\* 'compare', has fewer than 3 clause markers and mentions 'framework';
\* expert is returned for the query that combines several complex
\* indicators with 'framework' and 'methodology'.
C17_ComplexityOfTestQueries ==
    Classified =>
        /\ (query = ComplexTestQuery /\ NumClauses(doc) < 3)
              => query_analysis.complexity = "complex"
        /\ query = ExpertTestQuery
              => query_analysis.complexity = "expert"


\* C18: the chunks _chunk_text builds are each at most chunk_size
\* characters long, and every chunk after the first starts with the last
\* overlap characters of the chunk before it, for a text longer than
\* chunk_size.
LastChars(s, k) == SubSeq(s, Len(s) - Min(k, Len(s)) + 1, Len(s))

StartsWith(s, prefix) ==
    /\ Len(prefix) <= Len(s)
    /\ SubSeq(s, 1, Len(prefix)) = prefix

C18_ChunkSizeAndOverlap ==
    (pc \in {"_chunk_text", "_chunk_text returned"}
        /\ Len(whole_text) > chunk_size) =>
        /\ \A i \in 1..Len(chunks) : Len(chunks[i]) <= chunk_size
        /\ \A i \in 2..Len(chunks) :
              StartsWith(chunks[i], LastChars(chunks[i - 1], overlap))


\* C19: for an uploaded file of a supported format whose preprocessing
\* yields n chunks, process_uploaded_file stores all n chunks and returns
\* n, so the only failure of an upload is the ValueError of an unsupported
\* extension, which stores nothing, and the endpoint reports
\* processed_chunks equal to the number of chunks of all uploaded files,
\* all of them stored.
RECURSIVE PiecesOfFirst(_, _)
PiecesOfFirst(fs, k) ==
    IF k = 0 THEN 0 ELSE PiecesOfFirst(fs, k - 1) + Len(fs[k].pieces)

C19_UploadStoresAllChunks ==
    /\ pc = "raised" =>
          /\ FileExt(files[file_no].filename) \notin SupportedFormats
          /\ Len(store) = total_chunks
    /\ pc = "upload_documents" =>
          /\ total_chunks = PiecesOfFirst(files, file_no - 1)
          /\ Len(store) = total_chunks
    /\ pc = "uploaded" =>
          /\ total_chunks = PiecesOfFirst(files, Len(files))
          /\ Len(store) = total_chunks


\* C20: the augmentation suggestions hold the regulatory-framework item
\* exactly when the type is compliance, the sub-query item exactly when
\* the complexity is complex or expert, and the add-entities item exactly
\* when no entity was found, in this order and each at most once; the list
\* has at most 3 items and is empty exactly when the type is not
\* compliance, the complexity is simple or moderate and an entity was found.
SuggestionRank(item) ==
    CASE item = "Include relevant regulatory framework references" -> 1
      [] item = "Break down into sub-queries for detailed analysis" -> 2
      [] item = "Add specific entity references for better context" -> 3
      [] OTHER -> 0

C20_AugmentationSuggestions ==
    Classified =>
        LET s == query_analysis.augmentation_suggestions
            ranks == {SuggestionRank(s[i]) : i \in 1..Len(s)}
            compliance == query_analysis.query_type = "compliance"
            hard == query_analysis.complexity \in {"complex", "expert"}
            bare == Len(doc.ents) = 0
        IN  /\ Len(s) <= 3
            /\ \A i \in 1..Len(s) : SuggestionRank(s[i]) \in 1..3
            /\ \A i, j \in 1..Len(s) :
                  i < j => SuggestionRank(s[i]) < SuggestionRank(s[j])
            /\ (1 \in ranks) <=> compliance
            /\ (2 \in ranks) <=> hard
            /\ (3 \in ranks) <=> bare
            /\ (s = <<>>) <=>
                  /\ query_analysis.query_type # "compliance"
                  /\ query_analysis.complexity \in {"simple", "moderate"}
                  /\ Len(doc.ents) >= 1

C20_Witness ==
    /\ Classified
    /\ query = "hello"
    /\ Len(doc.ents) = 1
    /\ query_analysis.query_type = "procedural"
    /\ query_analysis.complexity = "simple"
    /\ query_analysis.augmentation_suggestions = <<>>


\* C21: temporal_references holds one reference (text, start, end) for
\* every occurrence of every temporal indicator in the lower-cased query,
\* repeated occurrences of one indicator included, followed by one
\* reference with its type for every DATE or TIME entity of the extractor,
\* in the extractor's order, and for no other entity; without an indicator
\* match and without a DATE/TIME entity has_temporal_aspect is false, and a
\* DATE/TIME entity alone makes it true.
LoweredQueries == [q \in Queries |-> Lower(q)]

\* the occurrences of the temporal indicators, counted position by position
IndicatorOccurrences ==
    [q \in Queries |->
        {<<k, i>> \in (1..Len(temporal_indicators)) \X (1..Len(q)) :
            MatchAt(temporal_indicators[k], LoweredQueries[q], i)}]

C21_TemporalReferences ==
    Classified =>
        LET ctx == query_analysis.temporal_context
            refs == ctx.temporal_references
            occurrences == IndicatorOccurrences[query]
            m == Cardinality(occurrences)
            dated == {i \in 1..Len(doc.ents) : doc.ents[i].label_ \in {"DATE", "TIME"}}
        IN  /\ Len(refs) = m + Cardinality(dated)
            /\ \A r \in 1..Min(m, Len(refs)) :
                  /\ DOMAIN refs[r] = {"text", "start", "end"}
                  /\ \E o \in occurrences :
                        /\ refs[r].text = temporal_indicators[o[1]]
                        /\ refs[r].start = o[2] - 1
                        /\ refs[r].end = o[2] - 1 + Len(refs[r].text)
                  /\ SubSeq(LoweredQueries[query], refs[r].start + 1, refs[r].end)
                        = refs[r].text
                  /\ \A r2 \in 1..Min(m, Len(refs)) :
                        r2 # r => refs[r2] # refs[r]
            /\ \A i \in dated :
                  LET r == m + Cardinality({j \in dated : j <= i})
                  IN  /\ r <= Len(refs)
                      /\ refs[r] = [text |-> doc.ents[i].text,
                                    type |-> doc.ents[i].label_,
                                    start |-> doc.ents[i].start_char,
                                    end |-> doc.ents[i].end_char]
            /\ (m = 0 /\ dated = {}) => ~ctx.has_temporal_aspect
            /\ dated # {} => ctx.has_temporal_aspect
            /\ m > 0 => ctx.has_temporal_aspect

C21_Witness ==
    /\ Classified
    /\ query = "when when"
    /\ Len(doc.ents) = 2
    /\ doc.ents[1].label_ = "ORG"
    /\ doc.ents[2].label_ = "TIME"
    /\ Len(query_analysis.temporal_context.temporal_references) = 3
    /\ query_analysis.temporal_context.temporal_references[2].start = 5
    /\ query_analysis.temporal_context.temporal_references[3].type = "TIME"


\* C22: when query_similar returned passages, the response has one source
\* for each passage, in the order query_similar gave them: the i-th source
\* has the document, the page and the chunk type ('text' when the passage
\* has none) of the i-th passage, and the passages are still the stored
\* ones, none dropped, repeated, moved or changed.
C22_SourcesFollowPassages ==
    (pc = "returned" /\ relevant_docs # <<>>) =>
        /\ Len(response.sources) = Len(relevant_docs)
        /\ Len(relevant_docs) <= num_contexts
        /\ \A i \in 1..Len(relevant_docs) :
              /\ relevant_docs[i] \in StoredPassages
              /\ response.sources[i].document = relevant_docs[i].source
              /\ response.sources[i].page = relevant_docs[i].page
              /\ response.sources[i].relevance_type =
                    (IF "chunk_type" \in DOMAIN relevant_docs[i]
                     THEN relevant_docs[i].chunk_type ELSE "text")

C22_Witness ==
    /\ pc = "returned"
    /\ Len(relevant_docs) = 2
    /\ relevant_docs[1].page # relevant_docs[2].page
    /\ response.sources[1].relevance_type = "annotation"
    /\ response.sources[2].relevance_type = "table"
    /\ response.sources[1].page = relevant_docs[1].page
    /\ response.sources[2].document = "table.pdf"


\* C23: for every analysis classify_query produces and every non-empty
\* list of passages the overall confidence equals the mean of the source
\* confidences: the confidence_score is at least 0.6, and at least 0.8,
\* 0.75, 0.65, 0.6 for simple, moderate, complex, expert, while a source
\* confidence is at most 0.7, 0.63, 0.56, 0.49 for the same complexity, so
\* the score is strictly the greater (by 0.09 at least), is never the
\* minimum, and the overall confidence never exceeds 0.7.
ScoreFloor(complexity) ==
    CASE complexity = "simple" -> 800
      [] complexity = "moderate" -> 750
      [] complexity = "complex" -> 650
      [] complexity = "expert" -> 600

SourceCeiling(complexity) ==
    CASE complexity = "simple" -> 700
      [] complexity = "moderate" -> 630
      [] complexity = "complex" -> 560
      [] complexity = "expert" -> 490

PromptFailureStep ==
    (pc = "generate" /\ FormatPromptRaises(relevant_docs)) =>
        /\ pc' = "raised"
        /\ response' = None
        /\ calls' = calls

ScoredWithKnownTypes ==
    (pc = "returned" /\ relevant_docs # <<>>) =>
        /\ Len(response.sources) = Len(relevant_docs)
        /\ \A i \in 1..Len(relevant_docs) :
              LET ctx == relevant_docs[i]
                  weight == ComplexityWeight(query_analysis.complexity)
              IN  /\ ChunkType(ctx) \in ContextSections
                  /\ TypeWeight(ChunkType(ctx)) \in {1000, 900, 800}
                  /\ response.sources[i].confidence
                        = Mul(Mul(700, TypeWeight(ChunkType(ctx))), weight)
                  /\ response.sources[i].confidence
                        # Mul(Mul(700, 700), weight)

C24_UnknownChunkTypeFailsPrompt ==
    /\ []ScoredWithKnownTypes
    /\ [][PromptFailureStep]_vars

C24_Witness ==
    /\ pc = "raised"
    /\ Len(relevant_docs) = 2
    /\ ChunkType(relevant_docs[1]) = "text"
    /\ ChunkType(relevant_docs[2]) = "image"
    /\ calls = [nlp |-> 1, zero_shot |-> 1, query_similar |-> 1, generate |-> 0]
    /\ response = None




\* C25: _chunk_text terminates for every text and every overlap with
\* 0 <= overlap < chunk_size, because every pass of its loop (also one
\* that pulls the chunk end back to the last space of the chunk) leaves
\* the start index strictly greater than before and never negative.
LoopPass == chunks' # chunks

C25_StartStrictlyIncreases ==
    [][(LoopPass /\ 0 <= overlap /\ overlap < chunk_size) =>
          (start' > start /\ start' >= 0)]_vars

=============================================================================
